---- MODULE Spec2Model ----
(***************************************************************************)
(* DragonSync: the ZMQ-to-CoT bridge.                                      *)
(*                                                                         *)
(* The model follows the event loop of zmq_to_cot (src/dragonsync.py),     *)
(* the drone registry DroneManager (src/manager.py), the Drone record and  *)
(* its CoT serializers (src/drone.py) and SystemStatus                     *)
(* (src/system_status.py).                                                 *)
(*                                                                         *)
(* Conventions.                                                            *)
(*  - Python strings are sequences of one-character strings, so that       *)
(*    startswith, slicing and concatenation are computed, not assumed.     *)
(*  - A dict key that may be absent is a set with at most one element:     *)
(*    {} is "key absent", {v} is "key present with value v".               *)
(*  - time.time() is the integer clock `now`; floats are integers in       *)
(*    clock units (0 stands for 0.0).                                      *)
(*  - An exception that leaves the `while True` loop is caught by the      *)
(*    `except Exception` around the loop (dragonsync.py:671), after which  *)
(*    zmq_to_cot returns: pc = "stopped".                                  *)
(*  - pc is the position of the loop: "poll" at poller.poll, "status" at   *)
(*    the status branch, "tick" at drone_manager.send_updates(), "done"    *)
(*    when send_updates has returned.                                      *)
(*  - A definition X_Suffix placed right before a definition X is a       *)
(*    faulty variant of X, kept to show that the properties tell the two   *)
(*    apart.                                                               *)
(***************************************************************************)
EXTENDS Integers, Sequences, FiniteSets, TLC

(***************************************************************************)
(* Bounds of the model and configuration values chosen for it.             *)
(***************************************************************************)
\* max_drones, rate_limit, inactivity_timeout as passed to DroneManager.
MaxDrones == 2
RateLimit == 2
InactivityTimeout == 2
\* The clock starts at Epoch (time.time() is far larger than rate_limit)
\* and the model follows it for Horizon units.
Epoch == 10
Horizon == 3
MaxTime == Epoch + Horizon

\* poller.poll(timeout=1000): a poll returns within one clock unit.
PollTimeout == 1

\* timedelta(minutes=10) in clock units.
TenMinutes == 600

(***************************************************************************)
(* Strings.                                                                *)
(***************************************************************************)
DronePrefix == <<"d", "r", "o", "n", "e", "-">>
PilotPrefix == <<"p", "i", "l", "o", "t", "-">>
HomePrefix == <<"h", "o", "m", "e", "-">>
WardragonPrefix == <<"w", "a", "r", "d", "r", "a", "g", "o", "n", "-">>
Unknown == <<"u", "n", "k", "n", "o", "w", "n">>

\* str.startswith
StartsWith(s, p) == Len(s) >= Len(p) /\ SubSeq(s, 1, Len(p)) = p

\* s[len(p):]
DropPrefix(s, p) == SubSeq(s, Len(p) + 1, Len(s))

(***************************************************************************)
(* JSON values of the inbound frames.                                      *)
(***************************************************************************)
\* A JSON scalar used as a number: a number, or something float() rejects
\* (a string such as "N/A", or null).
Num(v) == [num |-> TRUE, v |-> v]
NotANumber == [num |-> FALSE, v |-> 0]

\* A JSON scalar used as an identifier: a string, or a non-string (number,
\* null) that has no startswith method.
Str(s) == [isStr |-> TRUE, s |-> s]
NotAString == [isStr |-> FALSE, s |-> <<>>]

\* dict.get(key, default) on an optional key.
Get(opt, default) == IF opt = {} THEN default ELSE CHOOSE v \in opt : TRUE

\* utils.get_float: float(value), or the default when value is None or
\* float() raises.
get_float(value, default) == IF value.num THEN value.v ELSE default

(***************************************************************************)
(* Inbound telemetry frames.                                               *)
(*                                                                         *)
(* A sub-object container (one element of the array dialect, or the whole  *)
(* object of the single-object dialect) carries optional keys              *)
(* "Basic ID", "Location/Vector Message" and "System Message".             *)
(***************************************************************************)
SerialTag == "Serial Number (ANSI/CTA-2063-A)"
CAATag == "CAA Assigned Registration ID"
OtherTag == "Utm Assigned UUID"

BasicID(t, i) == [id_type |-> t, id |-> i]
Location(la, lo) == [latitude |-> la, longitude |-> lo]
Item(b, l, s) == [basic |-> b, loc |-> l, sys |-> s]

\* Identifier strings the sensor sends.
IdA == <<"A">>
IdB == <<"B">>
IdC == <<"C">>

\* "Location/Vector Message" sub-objects (latitude, longitude as sent):
\* a fix, and a frame without one.
LocFix == Location({Num(1)}, {Num(0)})
LocNoFix == Location({NotANumber}, {})

\* "System Message" sub-object (operator latitude, longitude).
SysFix == Location({Num(0)}, {Num(1)})

\* Single-object dialect: one object with its sub-objects.  Drone A is seen
\* without a location, with a location and an operator position, and under
\* its already-prefixed identifier; B with a location; C by its CAA
\* registration; a Basic ID without an "id" key; and frames that carry no
\* usable identifier.
DictItems ==
    {Item({BasicID(SerialTag, {Str(IdA)})}, {}, {}),
     Item({BasicID(SerialTag, {Str(IdA)})}, {LocFix}, {SysFix}),
     Item({BasicID(SerialTag, {Str(IdB)})}, {LocFix}, {}),
     Item({BasicID(SerialTag, {Str(DronePrefix \o IdA)})}, {}, {}),
     Item({BasicID(CAATag, {Str(IdC)})}, {}, {}),
     Item({BasicID(SerialTag, {})}, {LocNoFix}, {}),
     Item({BasicID(OtherTag, {Str(IdC)})}, {LocFix}, {}),
     Item({BasicID(SerialTag, {NotAString})}, {}, {})}

DictMessages == {[shape |-> "dict", items |-> <<i>>] : i \in DictItems}

\* Array dialect: a list of objects, here a Basic ID object of A and one
\* with C's CAA registration.
ListItemA == Item({BasicID(SerialTag, {Str(IdA)})}, {}, {})
ListItemC == Item({BasicID(CAATag, {Str(IdC)})}, {}, {})

\* The array frames: the empty list and the two objects in either order.
ListMessages ==
    {[shape |-> "list", items |-> q] :
        q \in {<<>>, <<ListItemA, ListItemC>>, <<ListItemC, ListItemA>>}}

\* A frame that is neither an array nor an object (a JSON number, string).
OtherMessages == {[shape |-> "other", items |-> <<>>]}

TelemetryMessages == DictMessages \cup ListMessages \cup OtherMessages

(***************************************************************************)
(* The normalizer: the accumulation of drone_info in zmq_to_cot.           *)
(***************************************************************************)
EmptyInfo == [id |-> {}, lat |-> {}, lon |-> {}, pilot_lat |-> {}, pilot_lon |-> {}]

\* The "Basic ID" branch: an accepted id_type sets drone_info['id'] unless
\* it is already set; an absent id key reads as 'unknown'.
\* (ParseBasicID_AnyType takes every id_type; ParseBasicID_Overwrite lets a
\* later Basic ID replace the identifier.)
ParseBasicID_AnyType(info, b) ==
    IF info.id = {}
    THEN [info EXCEPT !.id = {Get(b.id, Str(Unknown))}]
    ELSE info
ParseBasicID_Overwrite(info, b) ==
    IF b.id_type \in {SerialTag, CAATag}
    THEN [info EXCEPT !.id = {Get(b.id, Str(Unknown))}]
    ELSE info
ParseBasicID(info, b) ==
    IF b.id_type \in {SerialTag, CAATag} /\ info.id = {}
    THEN [info EXCEPT !.id = {Get(b.id, Str(Unknown))}]
    ELSE info

\* The "Location/Vector Message" branch.
ParseLocation(info, l) ==
    [info EXCEPT !.lat = {get_float(Get(l.latitude, Num(0)), 0)},
                 !.lon = {get_float(Get(l.longitude, Num(0)), 0)}]

\* The "System Message" branch.
ParseSystem(info, s) ==
    [info EXCEPT !.pilot_lat = {get_float(Get(s.latitude, Num(0)), 0)},
                 !.pilot_lon = {get_float(Get(s.longitude, Num(0)), 0)}]

\* One object of the frame: the three branches in source order.
ParseItem(info, item) ==
    LET i1 == IF item.basic = {} THEN info
              ELSE ParseBasicID(info, Get(item.basic, {}))
        i2 == IF item.loc = {} THEN i1
              ELSE ParseLocation(i1, Get(item.loc, {}))
    IN  IF item.sys = {} THEN i2 ELSE ParseSystem(i2, Get(item.sys, {}))

RECURSIVE ParseItems(_, _)
ParseItems(info, items) ==
    IF items = <<>> THEN info
    ELSE ParseItems(ParseItem(info, Head(items)), Tail(items))

\* drone_info after the isinstance(list) / isinstance(dict) branches.
ParseMessage(msg) == ParseItems(EmptyInfo, msg.items)

\* "Enforce 'drone-' prefix once after parsing all IDs".
\* (EnsurePrefix_None: the identifier is taken as sent.  EnsurePrefix_Always:
\* the prefix is prepended without looking.)
EnsurePrefix_None(s) == s
EnsurePrefix_Always(s) == DronePrefix \o s
EnsurePrefix(s) == IF StartsWith(s, DronePrefix) THEN s ELSE DronePrefix \o s

(***************************************************************************)
(* Drone (src/drone.py).  The fields kept are those that decide the        *)
(* registry's and the scheduler's behaviour; speed, altitude, MAC, RSSI    *)
(* and the Remote-ID extras only feed the remarks text, and                *)
(* last_sent_lat/last_sent_lon only feed a debug log line of send_updates. *)
(***************************************************************************)
\* Drone.__init__ as called at dragonsync.py:566: home_lat/home_lon keep
\* their defaults, last_update_time is time.time().
Drone(id, lat, lon, pilot_lat, pilot_lon, t) ==
    [id |-> id, lat |-> lat, lon |-> lon,
     pilot_lat |-> pilot_lat, pilot_lon |-> pilot_lon,
     home_lat |-> 0, home_lon |-> 0,
     last_update_time |-> t, last_sent_time |-> 0]

\* Drone.update as called at dragonsync.py:551 and manager.py:90: every
\* positional field is overwritten, home_lat/home_lon fall back to their
\* default 0.0, last_update_time is time.time().
\* (DroneUpdate_NoStamp: last_update_time is left alone.)
DroneUpdate_NoStamp(d, lat, lon, pilot_lat, pilot_lon, t) ==
    [d EXCEPT !.lat = lat, !.lon = lon,
              !.pilot_lat = pilot_lat, !.pilot_lon = pilot_lon,
              !.home_lat = 0, !.home_lon = 0]
DroneUpdate(d, lat, lon, pilot_lat, pilot_lon, t) ==
    [d EXCEPT !.lat = lat, !.lon = lon,
              !.pilot_lat = pilot_lat, !.pilot_lon = pilot_lon,
              !.home_lat = 0, !.home_lon = 0,
              !.last_update_time = t]

\* An optional stale_offset argument: {} is None.
StaleTime(utcnow, stale_offset) ==
    IF stale_offset # {} THEN utcnow + Get(stale_offset, 0)
    ELSE utcnow + TenMinutes

\* Drone.to_cot_xml: the attributes of <event> and <point>, and the drone id
\* the document names (<contact callsign>, the remarks text).
to_cot_xml(d, stale_offset, utcnow) ==
    [kind |-> "drone", uid |-> d.id, drone |-> d.id, time |-> utcnow,
     stale |-> StaleTime(utcnow, stale_offset), lat |-> d.lat, lon |-> d.lon]

\* base_id of to_pilot_cot_xml / to_home_cot_xml.
BaseId(id) == IF StartsWith(id, DronePrefix) THEN DropPrefix(id, DronePrefix) ELSE id

\* Drone.to_pilot_cot_xml
to_pilot_cot_xml(d, stale_offset, utcnow) ==
    [kind |-> "pilot", uid |-> PilotPrefix \o BaseId(d.id), drone |-> d.id,
     time |-> utcnow,
     stale |-> StaleTime(utcnow, stale_offset),
     lat |-> d.pilot_lat, lon |-> d.pilot_lon]

\* Drone.to_home_cot_xml
to_home_cot_xml(d, stale_offset, utcnow) ==
    [kind |-> "home", uid |-> HomePrefix \o BaseId(d.id), drone |-> d.id,
     time |-> utcnow,
     stale |-> StaleTime(utcnow, stale_offset),
     lat |-> d.home_lat, lon |-> d.home_lon]

(***************************************************************************)
(* DroneManager (src/manager.py).                                          *)
(***************************************************************************)
\* dict without a key: del d[k]
Del(d, k) == [x \in DOMAIN d \ {k} |-> d[x]]

\* dict with d[k] = v
Put(d, k, v) == [x \in DOMAIN d \cup {k} |-> IF x = k THEN v ELSE d[x]]

\* deque(maxlen=n).append: a full deque drops its leftmost element.
DequeAppend(q, x, maxlen) ==
    IF maxlen = 0 THEN q
    ELSE IF Len(q) >= maxlen THEN Append(Tail(q), x)
    ELSE Append(q, x)

\* deque.remove: drops the first occurrence.
RECURSIVE DequeRemove(_, _)
DequeRemove(q, x) ==
    IF q = <<>> THEN q
    ELSE IF Head(q) = x THEN Tail(q)
    ELSE <<Head(q)>> \o DequeRemove(Tail(q), x)

\* The capacity test of update_or_add_drone.
\* (IsFull_Off: the test is off by one.)
IsFull_Off(q, maxlen) == Len(q) > maxlen
IsFull(q, maxlen) == Len(q) >= maxlen

\* The eviction of update_or_add_drone: popleft and del; nothing is sent.
\* (Evict_Newest pops the right end; Evict_Notify sends a document for the
\* evicted record.)
Evict_Newest(q, dict) ==
    [drones |-> SubSeq(q, 1, Len(q) - 1), drone_dict |-> Del(dict, q[Len(q)]),
     out |-> <<>>]
Evict_Notify(q, dict) ==
    [drones |-> Tail(q), drone_dict |-> Del(dict, Head(q)),
     out |-> <<to_cot_xml(dict[Head(q)], {0}, 0)>>]
Evict(q, dict) ==
    [drones |-> Tail(q), drone_dict |-> Del(dict, Head(q)), out |-> <<>>]

\* DroneManager.update_or_add_drone(drone_id, drone_data) at time t.
\* Result: the deque, the dict and the documents handed to send_cot.
\* (update_or_add_drone_StampNow: a new record starts with last_sent_time
\* at the time of its insertion.)
update_or_add_drone_StampNow(q, dict, drone_id, drone_data, t) ==
    IF drone_id \notin DOMAIN dict
    THEN LET e == IF IsFull(q, MaxDrones) THEN Evict(q, dict)
                  ELSE [drones |-> q, drone_dict |-> dict, out |-> <<>>]
         IN  [drones |-> DequeAppend(e.drones, drone_id, MaxDrones),
              drone_dict |-> Put(e.drone_dict, drone_id,
                                 [drone_data EXCEPT !.last_sent_time = t]),
              out |-> e.out]
    ELSE [drones |-> q,
          drone_dict |-> Put(dict, drone_id,
                             DroneUpdate(dict[drone_id], drone_data.lat,
                                         drone_data.lon, drone_data.pilot_lat,
                                         drone_data.pilot_lon, t)),
          out |-> <<>>]
update_or_add_drone(q, dict, drone_id, drone_data, t) ==
    IF drone_id \notin DOMAIN dict
    THEN LET e == IF IsFull(q, MaxDrones) THEN Evict(q, dict)
                  ELSE [drones |-> q, drone_dict |-> dict, out |-> <<>>]
         IN  [drones |-> DequeAppend(e.drones, drone_id, MaxDrones),
              drone_dict |-> Put(e.drone_dict, drone_id,
                                 [drone_data EXCEPT !.last_sent_time = 0]),
              out |-> e.out]
    ELSE [drones |-> q,
          drone_dict |-> Put(dict, drone_id,
                             DroneUpdate(dict[drone_id], drone_data.lat,
                                         drone_data.lon, drone_data.pilot_lat,
                                         drone_data.pilot_lon, t)),
          out |-> <<>>]

\* "Remove drones that have been inactive beyond the timeout."
\* (IsInactive_Lax: one clock unit of grace.  IsInactive_AtTimeout: `>=`
\* for `>`.)
IsInactive_Lax(d, current_time) ==
    current_time - d.last_update_time > InactivityTimeout + 1
IsInactive_AtTimeout(d, current_time) ==
    current_time - d.last_update_time >= InactivityTimeout
IsInactive(d, current_time) ==
    current_time - d.last_update_time > InactivityTimeout

\* "Send a CoT update if the rate limit interval has passed."
\* (IsDue_Always: no rate limit.  IsDue_Strict: `>` for `>=`.)
IsDue_Always(d, current_time) == TRUE
IsDue_Strict(d, current_time) == current_time - d.last_sent_time > RateLimit
IsDue(d, current_time) == current_time - d.last_sent_time >= RateLimit

\* The documents one due drone hands to send_cot, in call order.
\* (DroneDocs_PilotFirst: the pilot document goes out first.)
DroneDocs_PilotFirst(d, current_time) ==
    LET off == {InactivityTimeout - (current_time - d.last_update_time)}
    IN  (IF d.pilot_lat # 0 \/ d.pilot_lon # 0
         THEN <<to_pilot_cot_xml(d, off, current_time)>> ELSE <<>>)
        \o <<to_cot_xml(d, off, current_time)>>
        \o (IF d.home_lat # 0 \/ d.home_lon # 0
            THEN <<to_home_cot_xml(d, off, current_time)>> ELSE <<>>)
\* (DroneDocs_PilotBoth: the pilot document needs both coordinates nonzero.)
DroneDocs_PilotBoth(d, current_time) ==
    LET off == {InactivityTimeout - (current_time - d.last_update_time)}
    IN  <<to_cot_xml(d, off, current_time)>>
        \o (IF d.pilot_lat # 0 /\ d.pilot_lon # 0
            THEN <<to_pilot_cot_xml(d, off, current_time)>> ELSE <<>>)
        \o (IF d.home_lat # 0 \/ d.home_lon # 0
            THEN <<to_home_cot_xml(d, off, current_time)>> ELSE <<>>)
DroneDocs(d, current_time) ==
    LET off == {InactivityTimeout - (current_time - d.last_update_time)}
    IN  <<to_cot_xml(d, off, current_time)>>
        \o (IF d.pilot_lat # 0 \/ d.pilot_lon # 0
            THEN <<to_pilot_cot_xml(d, off, current_time)>> ELSE <<>>)
        \o (IF d.home_lat # 0 \/ d.home_lon # 0
            THEN <<to_home_cot_xml(d, off, current_time)>> ELSE <<>>)

\* The body of `for drone_id in list(self.drones)`: the dict, the documents
\* sent and drones_to_remove after the ids still to visit.
RECURSIVE UpdatesLoop(_, _, _, _, _)
UpdatesLoop(ids, dict, out, remove, current_time) ==
    IF ids = <<>> THEN [drone_dict |-> dict, out |-> out, remove |-> remove]
    ELSE LET drone_id == Head(ids)
             d == dict[drone_id]
         IN  IF IsInactive(d, current_time)
             THEN UpdatesLoop(Tail(ids), dict, out, Append(remove, drone_id),
                              current_time)
             ELSE IF IsDue(d, current_time)
             THEN UpdatesLoop(Tail(ids),
                              Put(dict, drone_id,
                                  [d EXCEPT !.last_sent_time = current_time]),
                              out \o DroneDocs(d, current_time), remove,
                              current_time)
             ELSE UpdatesLoop(Tail(ids), dict, out, remove, current_time)

\* "Remove inactive drones after processing updates."
\* (RemoveAll_KeepRecord: the identifier leaves the deque, its record
\* stays in the dict.)
RECURSIVE RemoveAll_KeepRecord(_, _, _)
RemoveAll_KeepRecord(q, dict, remove) ==
    IF remove = <<>> THEN [drones |-> q, drone_dict |-> dict]
    ELSE RemoveAll_KeepRecord(DequeRemove(q, Head(remove)), dict,
                              Tail(remove))
RECURSIVE RemoveAll(_, _, _)
RemoveAll(q, dict, remove) ==
    IF remove = <<>> THEN [drones |-> q, drone_dict |-> dict]
    ELSE RemoveAll(DequeRemove(q, Head(remove)), Del(dict, Head(remove)),
                   Tail(remove))

\* DroneManager.send_updates at current_time.
send_updates(q, dict, current_time) ==
    LET r == UpdatesLoop(q, dict, <<>>, <<>>, current_time)
        k == RemoveAll(q, r.drone_dict, r.remove)
    IN  [drones |-> k.drones, drone_dict |-> k.drone_dict, out |-> r.out,
         remove |-> r.remove]

(***************************************************************************)
(* SystemStatus (src/system_status.py) and the status branch of the loop.  *)
(***************************************************************************)
SerialS == <<"S">>

\* Status frames: gps_data.latitude / gps_data.longitude absent, numeric or
\* non-numeric (gpsd reports 'N/A' without a fix).
StatusMessages ==
    {[serial_number |-> SerialS, gps_data |-> Location({}, {})]}
    \cup {[serial_number |-> SerialS, gps_data |-> Location({la}, {Num(0)})] :
            la \in {Num(0), Num(1), NotANumber}}

\* The parameters SystemStatus.__init__ declares.
SystemStatusParams ==
    {"serial_number", "lat", "lon", "alt", "cpu_usage", "memory_total",
     "memory_available", "disk_total", "disk_used", "temperature", "uptime"}

\* The keyword arguments of the call at dragonsync.py:647.
StatusCallKwargs == SystemStatusParams \cup {"pluto_temp", "zynq_temp"}

\* Whether SystemStatus(**kwargs) binds: an undeclared keyword raises
\* TypeError.  (SystemStatusAccepts_Any: a constructor that takes them all.)
SystemStatusAccepts_Any(kwargs) == TRUE
SystemStatusAccepts(kwargs) == kwargs \subseteq SystemStatusParams

\* SystemStatus.to_cot_xml: the attributes of <event> and <point>.
status_to_cot_xml(serial, lat, lon, utcnow) ==
    [kind |-> "status", uid |-> WardragonPrefix \o serial, drone |-> <<>>,
     time |-> utcnow,
     stale |-> utcnow + TenMinutes, lat |-> lat, lon |-> lon]

(***************************************************************************)
(* The normalizer on its own: one frame in, drone_info out.                *)
(***************************************************************************)
\* Frames for the normalizer alone carry up to MaxObjects objects.
MaxObjects == 3

\* Objects of the array dialect that differ in their Basic ID: two serial
\* numbers, a CAA registration, an id_type that is not accepted, and an
\* object without a Basic ID.
BasicIdObjects ==
    {Item({BasicID(SerialTag, {Str(IdA)})}, {}, {}),
     Item({BasicID(SerialTag, {Str(IdB)})}, {}, {}),
     Item({BasicID(CAATag, {Str(IdC)})}, {}, {}),
     Item({BasicID(OtherTag, {Str(IdB)})}, {}, {}),
     Item({}, {LocFix}, {})}

\* The frames given to the normalizer: every list of up to MaxObjects
\* objects, and the single-object frames of the loop.
NormalizerMessages ==
    {[shape |-> "list", items |-> q] :
        q \in UNION {[1..n -> BasicIdObjects] : n \in 0..MaxObjects}}
    \cup DictMessages

\* No frame has been normalized.
NormalizerIdle == [msg |-> {}, info |-> {}]

(***************************************************************************)
(* CotMessenger (src/messaging.py) and its sinks TAKClient                 *)
(* (src/tak_client.py) and TAKUDPClient (src/tak_udp_client.py).           *)
(***************************************************************************)
\* retry_count of send_cot, and the most multicast sockets __init__ opens.
RetryCount == 2
MaxSockets == 2

\* The CoT documents handed to send_cot.
CotDocs == {"cot1", "cot2"}

\* One entry of the record of a send_cot call: what happened on a sink.
\*   "sent"       sendall / sendto returned: the document went out
\*   "nosock"     TAKClient.send found self.sock unset and returned
\*   "swallowed"  the client caught the socket error itself and returned
\*   "raised"     the exception reached send_cot's except clause
\*   "critical"   "Exceeded maximum retries ..."
Event(sink, i, kind, doc) == [sink |-> sink, i |-> i, kind |-> kind, doc |-> doc]

\* TAKClient.send on socket state sock ("none": self.sock is None, "conn":
\* connected, "broken": the peer is gone and sendall raises).  Result: the
\* socket afterwards, what happened, whether the caller sees an exception.
TakSend(sock) ==
    CASE sock = "none" -> [sock |-> "none", kind |-> "nosock", raised |-> FALSE]
      [] sock = "conn" -> [sock |-> "conn", kind |-> "sent", raised |-> FALSE]
      [] sock = "broken" ->
            \* except Exception: log, self.close()
            [sock |-> "none", kind |-> "swallowed", raised |-> FALSE]

\* TAKClient.close
TakClose(sock) == "none"

\* TAKUDPClient.send on socket state udp_sock; fails: sendto raises (always
\* on a closed socket).
UdpSend(udp_sock, fails) ==
    IF udp_sock = "closed" \/ fails
    THEN [kind |-> "swallowed", raised |-> FALSE]
    ELSE [kind |-> "sent", raised |-> FALSE]

\* The except clause of an attempt in send_cot: sleep and retry, or log
\* critically after the last attempt.
\* (OnSendError_Reraise: the last failure is raised to the caller.)
OnSendError_Reraise(attempt) == IF attempt < RetryCount THEN "retry" ELSE "raise"
OnSendError(attempt) == IF attempt < RetryCount THEN "retry" ELSE "critical"

\* `for sock, iface_ip in self.multicast_sockets`: the socket visited after
\* socket i gave up; n is the length of the list.
\* (AfterExhausted_Abort: the remaining sockets are skipped.)
AfterExhausted_Abort(i, n) == n + 1
AfterExhausted(i, n) == i + 1

\* CotMessenger.close: every multicast socket is closed and the list
\* emptied, then the clients are closed.  closed records that it ran.
\* (MessengerClose_KeepList: the list of multicast sockets is kept.)
MessengerClose_KeepList(m) ==
    [m EXCEPT !.sock = IF m.tak_client THEN TakClose(@) ELSE @,
              !.udp_sock = IF m.tak_udp_client THEN "closed" ELSE @,
              !.closed = TRUE]
MessengerClose(m) ==
    [m EXCEPT !.multicast_sockets = <<>>,
              !.sock = IF m.tak_client THEN TakClose(@) ELSE @,
              !.udp_sock = IF m.tak_udp_client THEN "closed" ELSE @,
              !.closed = TRUE]

\* Whether the multicast branch of send_cot runs.
MulticastOn(m) == m.enable_multicast /\ m.multicast_sockets # <<>>

\* CotMessenger.__init__ with its clients as zmq_to_cot builds them: a
\* TAKClient has connected (tak_client.connect() returns only then).
Messenger(tak_client, tak_udp_client, enable_multicast, n) ==
    [tak_client |-> tak_client, tak_udp_client |-> tak_udp_client,
     enable_multicast |-> enable_multicast,
     multicast_sockets |-> [k \in 1..n |-> "open"],
     sock |-> IF tak_client THEN "conn" ELSE "none",
     udp_sock |-> IF tak_udp_client THEN "open" ELSE "closed",
     server_up |-> TRUE, was_down |-> FALSE,
     pc |-> "idle", attempt |-> 1, i |-> 1, cot_xml |-> "cot1",
     log |-> <<>>, closed |-> FALSE]

\* A messenger without sinks, on which nothing is called.
MessengerAtRest == Messenger(FALSE, FALSE, FALSE, 0)

(***************************************************************************)
(* TAKClient (src/tak_client.py) on its own: connect, run_connect_loop on  *)
(* its thread, send and close on the loop thread.                          *)
(***************************************************************************)
\* backoff_factor and max_backoff of TAKClient.__init__.
BackoffFactor == 2
MaxBackoff == 60

\* backoff_factor ** retry_count is a float power: 2.0 ** k raises
\* OverflowError from k = 1024 on (the exponent range of a double).
MaxExp == 1024

\* The largest finite max_retries, and the failures in a row the threads
\* are followed through when max_retries is -1.
MaxRetries == 2
MaxFailures == 2

\* b ** k as far as it matters under min(., cap): exact up to the first
\* power above cap.
RECURSIVE PowUpTo(_, _, _, _, _)
PowUpTo(b, k, cap, p, i) ==
    IF i = k \/ p > cap THEN p ELSE PowUpTo(b, k, cap, b * p, i + 1)

\* wait_time of connect's except clause; {} when the power raises.
WaitTime(retry_count) ==
    IF retry_count >= MaxExp THEN {}
    ELSE LET p == PowUpTo(BackoffFactor, retry_count, MaxBackoff, 1, 0)
         IN  {IF p < MaxBackoff THEN p ELSE MaxBackoff}

\* The condition of connect's while loop.
\* (MayAttempt_OneMore: `<=` for `<`.)
MayAttempt_OneMore(max_retries, retry_count) ==
    max_retries = -1 \/ retry_count <= max_retries
MayAttempt(max_retries, retry_count) ==
    max_retries = -1 \/ retry_count < max_retries

\* TAKClient.__init__.  self.sock is "none" (None), "tcp" (a connected TCP
\* socket), "tls" (the socket wrap_socket returned) or "detached" (a TCP
\* socket object whose descriptor a failed wrap_socket took and closed).
\* conn: where the thread that connects is; loop: where the loop thread
\* is in send; follow: the failures in a row that are followed.
\* History: wait and prev_wait, the last two waits of the current run of
\* failures; written, the socket states send has called sendall on;
\* result, how the last connect() ended; closed, close() has returned.
TakClient(tls, max_retries, follow) ==
    [tls |-> tls, max_retries |-> max_retries, follow |-> follow,
     sock |-> "none", retry_count |-> 0, conn |-> "idle", loop |-> "idle",
     wait |-> {}, prev_wait |-> {}, written |-> {}, result |-> "none",
     closed |-> FALSE]

\* A client on which nothing is called.
TakAtRest == TakClient(FALSE, -1, 0)

(***************************************************************************)
(* The process of zmq_to_cot and its signals.                              *)
(***************************************************************************)
\* The process in its loop: the telemetry socket (and the status socket when
\* there is one) subscribed, the ZMQ context open, no exit code yet.
ProcessRunning ==
    [state |-> "running", exit_code |-> {}, subscriptions |-> "open",
     context |-> "open"]

\* The signals with a handler: signal.signal(signal.SIGINT, signal_handler).
Handled == {"SIGINT"}

\* The signals that ask the process to stop.
Signals == {"SIGINT", "SIGTERM"}

\* signal_handler: the subscriptions are closed, the context terminated, the
\* clients and the messenger closed, then sys.exit(0).  SystemExit is not an
\* Exception: a send_cot call in progress is abandoned.
signal_handler(p, m) ==
    [process |-> [state |-> "exited", exit_code |-> {0},
                  subscriptions |-> "closed", context |-> "terminated"],
     messenger |-> [MessengerClose(m) EXCEPT !.pc = "idle"]]

\* A signal without a handler: the default disposition ends the process at
\* once (status 128 + signal number); none of its code runs.
DefaultDisposition(p, m) ==
    [process |-> [p EXCEPT !.state = "killed", !.exit_code = {128 + 15}],
     messenger |-> [m EXCEPT !.pc = "idle"]]

\* No identifier was accepted in this iteration.
NoInfo == [id |-> {}, keys |-> {}]

(***************************************************************************)
(* State.                                                                  *)
(***************************************************************************)
VARIABLES
    now,         \* time.time()
    pc,          \* position of the event loop
    drones,      \* DroneManager.drones: the deque of identifiers
    drone_dict,  \* DroneManager.drone_dict: identifier -> Drone
    sent,        \* documents handed to CotMessenger.send_cot in this iteration
    evicted,     \* history: identifiers this iteration evicted for capacity
    emitById,    \* history: identifier -> time of its last drone event
    emitByRec,   \* history: the same, for the records now in the live set
    emitGaps,    \* history: successive-emission pairs of this iteration's tick
    retired,     \* history: identifiers this iteration's tick removed
    status_pos,  \* history: (lat, lon) of the status frame of this iteration
    frame,       \* history: what the telemetry branch has just consumed
    normalizer,  \* the normalizer applied to one frame: its input, its result
    messenger,   \* CotMessenger, its sinks and the send_cot call in progress
    process,     \* the process: running or exited, its subscription sockets
    drone_info,  \* history: identifier and keys of this iteration's drone_info
    consecutive_moves, \* history: identifier -> the position of its last drone
                       \* event and the ticks in a row that saw it elsewhere
    tak          \* a TAKClient with the thread of its reconnect loop

vars == <<now, pc, drones, drone_dict, sent, evicted, emitById, emitByRec,
          emitGaps, retired, status_pos, frame, normalizer, messenger,
          process, drone_info, consecutive_moves, tak>>

\* The history kept only by the specifications that trace it.
Traced == <<drone_info, consecutive_moves>>

Restrict(f, S) == [x \in DOMAIN f \cap S |-> f[x]]

\* The event loop when zmq_to_cot enters `while True`.
LoopInit ==
    /\ now = Epoch
    /\ pc = "poll"
    /\ drones = <<>>
    /\ drone_dict = <<>>
    /\ sent = <<>>
    /\ evicted = {}
    /\ emitById = <<>>
    /\ emitByRec = <<>>
    /\ emitGaps = {}
    /\ retired = {}
    /\ status_pos = {}
    /\ frame = "none"
    /\ drone_info = NoInfo
    /\ consecutive_moves = <<>>

Init ==
    /\ LoopInit
    /\ normalizer = NormalizerIdle
    /\ messenger = MessengerAtRest
    /\ process = ProcessRunning
    /\ tak = TakAtRest

\* socks = dict(poller.poll(timeout=1000)): the poll returns at once when a
\* frame is waiting and after the timeout otherwise.  The history of the
\* iteration starts empty; emitById forgets emissions RateLimit old.
PollReturns(dt) ==
    /\ pc = "poll"
    /\ now + dt <= MaxTime
    /\ now' = now + dt
    /\ emitById' = Restrict(emitById,
                            {i \in DOMAIN emitById :
                                now + dt - emitById[i] < RateLimit})
    /\ emitGaps' = {}
    /\ retired' = {}
    /\ status_pos' = {}
    /\ UNCHANGED <<normalizer, messenger, process, tak>>

\* Where the iteration goes after the telemetry branch: the status branch
\* when the status socket is readable, else send_updates.
AfterTelemetry(statusReady) == IF statusReady THEN "status" ELSE "tick"

\* The registry after the telemetry branch accepted identifier `id` at
\* time t (dragonsync.py:548-581).
\* (Upsert_MoveToEnd: an update moves the identifier to the right end of
\* the deque.)
Upsert_MoveToEnd(info, id, t) ==
    LET lat == Get(info.lat, 0)
        lon == Get(info.lon, 0)
        pilot_lat == Get(info.pilot_lat, 0)
        pilot_lon == Get(info.pilot_lon, 0)
    IN  IF id \in DOMAIN drone_dict
        THEN [drones |-> Append(DequeRemove(drones, id), id),
              drone_dict |-> Put(drone_dict, id,
                                 DroneUpdate(drone_dict[id], lat, lon,
                                             pilot_lat, pilot_lon, t)),
              out |-> <<>>]
        ELSE update_or_add_drone(drones, drone_dict, id,
                                 Drone(id, lat, lon, pilot_lat, pilot_lon, t),
                                 t)
Upsert(info, id, t) ==
    LET lat == Get(info.lat, 0)
        lon == Get(info.lon, 0)
        pilot_lat == Get(info.pilot_lat, 0)
        pilot_lon == Get(info.pilot_lon, 0)
    IN  IF id \in DOMAIN drone_dict
        THEN [drones |-> drones,
              drone_dict |-> Put(drone_dict, id,
                                 DroneUpdate(drone_dict[id], lat, lon,
                                             pilot_lat, pilot_lon, t)),
              out |-> <<>>]
        ELSE update_or_add_drone(drones, drone_dict, id,
                                 Drone(id, lat, lon, pilot_lat, pilot_lon, t),
                                 t)

\* The telemetry branch of one loop iteration on frame msg.
TelemetryBranch(msg, t, statusReady) ==
    LET info == ParseMessage(msg)
        idv == Get(info.id, NotAString)
    IN  IF msg.shape = "other"
        THEN \* "Unexpected message format": continue
             /\ pc' = "poll"
             /\ sent' = <<>>
             /\ evicted' = {}
             /\ UNCHANGED <<drones, drone_dict, emitByRec>>
        ELSE IF info.id = {}
        THEN \* "Drone ID not found in message. Skipping."
             /\ pc' = AfterTelemetry(statusReady)
             /\ sent' = <<>>
             /\ evicted' = {}
             /\ UNCHANGED <<drones, drone_dict, emitByRec>>
        ELSE IF ~idv.isStr
        THEN \* drone_info['id'].startswith raises AttributeError
             /\ pc' = "stopped"
             /\ sent' = <<>>
             /\ evicted' = {}
             /\ UNCHANGED <<drones, drone_dict, emitByRec>>
        ELSE LET r == Upsert(info, EnsurePrefix(idv.s), t)
             IN  /\ pc' = AfterTelemetry(statusReady)
                 /\ drones' = r.drones
                 /\ drone_dict' = r.drone_dict
                 /\ sent' = r.out
                 /\ evicted' = DOMAIN drone_dict \ DOMAIN r.drone_dict
                 /\ emitByRec' = Restrict(emitByRec, DOMAIN r.drone_dict)

\* Whether a parsed frame carries a Basic ID of an accepted id_type
\* (dragonsync.py:469-473, 511-515).  A frame that is neither a list nor a
\* dict ends the iteration at once (`continue`), and its history with it.
FrameKind(msg) ==
    IF msg.shape = "other" THEN "none"
    ELSE IF \E k \in 1..Len(msg.items) :
                \E b \in msg.items[k].basic : b.id_type \in {SerialTag, CAATag}
    THEN "identified" ELSE "unidentified"

\* The poll returned after dt with the telemetry socket readable, and
\* recv_json gave msg.
TelemetryStep(dt, msg, statusReady) ==
    /\ PollReturns(dt)
    /\ frame' = FrameKind(msg)
    /\ TelemetryBranch(msg, now + dt, statusReady)

\* An iteration whose poll reports the telemetry socket readable.
PollTelemetry(statusReady) ==
    \E dt \in 0..PollTimeout, msg \in TelemetryMessages :
        /\ TelemetryStep(dt, msg, statusReady)
        /\ UNCHANGED Traced

\* An iteration whose poll reports no telemetry frame.
PollIdle(statusReady) ==
    \E dt \in 0..PollTimeout :
        /\ PollReturns(dt)
        /\ frame' = "none"
        /\ pc' = AfterTelemetry(statusReady)
        /\ sent' = <<>>
        /\ evicted' = {}
        /\ UNCHANGED <<drones, drone_dict, emitByRec>>
        /\ UNCHANGED Traced

\* The status branch of one loop iteration.
HandleStatus ==
    /\ pc = "status"
    /\ \E msg \in StatusMessages :
        LET lat == get_float(Get(msg.gps_data.latitude, Num(0)), 0)
            lon == get_float(Get(msg.gps_data.longitude, Num(0)), 0)
        IN  /\ status_pos' = {<<lat, lon>>}
            /\ IF SystemStatusAccepts(StatusCallKwargs)
               THEN /\ sent' = Append(sent,
                                      status_to_cot_xml(msg.serial_number,
                                                        lat, lon, now))
                    /\ pc' = "tick"
               ELSE \* TypeError: unexpected keyword argument 'pluto_temp'
                    /\ sent' = sent
                    /\ pc' = "stopped"
    /\ frame' = "none"
    /\ UNCHANGED <<now, drones, drone_dict, evicted, emitById, emitByRec,
                   emitGaps, retired, normalizer, messenger, process, tak>>
    /\ UNCHANGED Traced

\* The drone events among the documents of a tick.
DroneEvents(out) == {out[i] : i \in {j \in 1..Len(out) : out[j].kind = "drone"}}

\* drone_manager.send_updates()
SendUpdatesStep ==
    /\ pc = "tick"
    /\ LET r == send_updates(drones, drone_dict, now)
           ids == {e.uid : e \in DroneEvents(r.out)}
       IN  /\ drones' = r.drones
           /\ drone_dict' = r.drone_dict
           /\ sent' = sent \o r.out
           /\ emitGaps' = {[id |-> i, prev |-> emitById[i], time |-> now,
                            same |-> FALSE] : i \in ids \cap DOMAIN emitById}
                           \cup
                           {[id |-> i, prev |-> emitByRec[i], time |-> now,
                             same |-> TRUE] : i \in ids \cap DOMAIN emitByRec}
           /\ retired' = {r.remove[k] : k \in 1..Len(r.remove)}
           /\ emitById' = [i \in DOMAIN emitById \cup ids |->
                             IF i \in ids THEN now ELSE emitById[i]]
           /\ emitByRec' = Restrict([i \in DOMAIN emitByRec \cup ids |->
                                       IF i \in ids THEN now ELSE emitByRec[i]],
                                    DOMAIN r.drone_dict)
    /\ pc' = "done"
    /\ frame' = "none"
    /\ UNCHANGED <<now, evicted, status_pos, normalizer, messenger, process, tak>>

Tick == SendUpdatesStep /\ UNCHANGED Traced

\* while True: the loop body is over and control returns to the poll; the
\* history of the iteration is dropped.
LoopBack ==
    /\ pc = "done"
    /\ pc' = "poll"
    /\ sent' = <<>>
    /\ evicted' = {}
    /\ emitGaps' = {}
    /\ retired' = {}
    /\ status_pos' = {}
    /\ UNCHANGED <<now, drones, drone_dict, emitById, emitByRec, frame,
                   normalizer, messenger, process, tak>>
    /\ UNCHANGED Traced

\* The bridge started without a status port (status_socket is None).
Next == PollTelemetry(FALSE) \/ PollIdle(FALSE) \/ Tick \/ LoopBack

Spec == Init /\ [][Next]_vars

\* The bridge started with a status port.
NextStatus ==
    \/ \E statusReady \in BOOLEAN : PollTelemetry(statusReady)
    \/ \E statusReady \in BOOLEAN : PollIdle(statusReady)
    \/ HandleStatus
    \/ Tick
    \/ LoopBack

SpecStatus == Init /\ [][NextStatus]_vars

(***************************************************************************)
(* The loop with the history of what each iteration accepted and of each   *)
(* record's movement between drone events.                                 *)
(***************************************************************************)
\* The ticks in a row the movement history counts up to.
MinConsecutive == 2

\* What the telemetry branch accepted from frame msg: the identifier it
\* stored the frame under and the keys drone_info carried ("lat" stands for
\* lat and lon, "pilot_lat" for pilot_lat and pilot_lon).
InfoOf(msg) ==
    LET info == ParseMessage(msg)
        idv == Get(info.id, NotAString)
    IN  IF msg.shape = "other" \/ info.id = {} \/ ~idv.isStr THEN NoInfo
        ELSE [id |-> {EnsurePrefix(idv.s)},
              keys |-> {k \in {"lat", "pilot_lat"} : info[k] # {}}]

PollTelemetryTraced ==
    \E dt \in 0..PollTimeout, msg \in TelemetryMessages :
        /\ TelemetryStep(dt, msg, FALSE)
        /\ drone_info' = InfoOf(msg)
        /\ UNCHANGED consecutive_moves

\* The movement history after send_updates: for every record it keeps, the
\* position of its last drone event (the position it was created at before
\* the first one) and the number of ticks in a row that found the record
\* away from it, as position_change measures it (manager.py:117-119).
\* Positions are whole units, far above any threshold of a few metres.
MovesAfter(r) ==
    [id \in DOMAIN r.drone_dict |->
        LET d == drone_dict[id]
            prev == IF id \in DOMAIN consecutive_moves
                    THEN consecutive_moves[id]
                    ELSE [lat |-> d.lat, lon |-> d.lon, count |-> 0]
            moved == d.lat # prev.lat \/ d.lon # prev.lon
            emitted == \E doc \in DroneEvents(r.out) : doc.drone = id
        IN  [lat |-> IF emitted THEN d.lat ELSE prev.lat,
             lon |-> IF emitted THEN d.lon ELSE prev.lon,
             count |-> IF ~moved THEN 0
                       ELSE IF prev.count < MinConsecutive THEN prev.count + 1
                       ELSE MinConsecutive]]

TickTraced ==
    /\ SendUpdatesStep
    /\ drone_info' = NoInfo
    /\ consecutive_moves' = MovesAfter(send_updates(drones, drone_dict, now))

NextTrace == PollTelemetryTraced \/ PollIdle(FALSE) \/ TickTraced \/ LoopBack

SpecTrace == Init /\ [][NextTrace]_vars

\* The accumulation of drone_info (dragonsync.py:452-534) applied to one
\* frame, and the identifier the frame is stored under (540-548).
Normalize ==
    /\ \E msg \in NormalizerMessages :
          /\ normalizer' = [msg |-> {msg}, info |-> {ParseMessage(msg)}]
          /\ drone_info' = InfoOf(msg)
    /\ UNCHANGED <<now, pc, drones, drone_dict, sent, evicted, emitById,
                   emitByRec, emitGaps, retired, status_pos, frame, messenger,
                   process, consecutive_moves, tak>>

NextNormalizer == Normalize

SpecNormalizer == Init /\ [][NextNormalizer]_vars

\* What the messenger steps leave alone.
LoopVars == <<now, pc, drones, drone_dict, sent, evicted, emitById, emitByRec,
              emitGaps, retired, status_pos, frame, normalizer, drone_info,
              consecutive_moves>>

\* A messenger with any choice of sinks; multicast_sockets stays empty when
\* multicast is off or its initialization failed.
InitMessenger ==
    /\ LoopInit
    /\ normalizer = NormalizerIdle
    /\ messenger \in
          {Messenger(t, u, e, n) : t \in BOOLEAN, u \in BOOLEAN,
                                   e \in BOOLEAN, n \in 0..MaxSockets}
    /\ messenger.enable_multicast \/ messenger.multicast_sockets = <<>>
    /\ process = ProcessRunning
    /\ tak = TakAtRest

\* send_cot(cot_xml) is called.
\* (SendCot_MulticastFirst: the multicast branch runs before the unicast
\* one and the call ends with it.)
SendCot_MulticastFirst ==
    /\ process.state = "running"
    /\ messenger.pc = "idle"
    /\ \E doc \in CotDocs :
          messenger' = [messenger EXCEPT
                           !.pc = IF MulticastOn(messenger) THEN "mcast"
                                  ELSE "unicast",
                           !.attempt = 1, !.i = 1, !.cot_xml = doc,
                           !.log = <<>>]
    /\ UNCHANGED <<LoopVars, process, tak>>
SendCot ==
    /\ process.state = "running"
    /\ messenger.pc = "idle"
    /\ \E doc \in CotDocs :
          messenger' = [messenger EXCEPT !.pc = "unicast", !.attempt = 1,
                                         !.i = 1, !.cot_xml = doc,
                                         !.log = <<>>]
    /\ UNCHANGED <<LoopVars, process, tak>>

\* Where send_cot goes when the unicast branch is over.
AfterUnicast(m) == IF MulticastOn(m) THEN "mcast" ELSE "idle"

\* The result of one unicast attempt that logged event kind and saw (or
\* did not see) an exception.
UnicastOutcome(m, sink, r) ==
    LET ev == Event(sink, 0, r.kind, m.cot_xml)
        err == Event(sink, 0, "raised", m.cot_xml)
        crit == Event(sink, 0, "critical", m.cot_xml)
    IN  IF ~r.raised
        THEN [m EXCEPT !.log = Append(@, ev), !.pc = AfterUnicast(m),
                       !.attempt = 1]
        ELSE CASE OnSendError(m.attempt) = "retry" ->
                    [m EXCEPT !.log = @ \o <<ev, err>>, !.attempt = @ + 1]
               [] OnSendError(m.attempt) = "critical" ->
                    [m EXCEPT !.log = @ \o <<ev, err, crit>>,
                              !.pc = AfterUnicast(m), !.attempt = 1]
               [] OTHER ->
                    [m EXCEPT !.log = @ \o <<ev, err>>, !.pc = "raised"]

\* The unicast sink of send_cot: `if self.tak_client: ... elif
\* self.tak_udp_client: ... else: ...`.
\* (UnicastSink_Fallback: UDP stands in for a TCP/TLS client without a
\* socket.)
UnicastSink_Fallback(m) ==
    IF m.tak_client /\ (m.sock # "none" \/ ~m.tak_udp_client) THEN "tcp"
    ELSE IF m.tak_udp_client THEN "udp"
    ELSE "none"
UnicastSink(m) ==
    IF m.tak_client THEN "tcp"
    ELSE IF m.tak_udp_client THEN "udp"
    ELSE "none"

\* One attempt of the unicast branch of send_cot: TCP/TLS if configured,
\* else UDP if configured, else nothing.
UnicastAttempt ==
    /\ messenger.pc = "unicast"
    /\ IF UnicastSink(messenger) = "tcp"
       THEN LET r == TakSend(messenger.sock)
            IN  messenger' = [UnicastOutcome(messenger, "tcp", r)
                                EXCEPT !.sock = r.sock]
       ELSE IF UnicastSink(messenger) = "udp"
       THEN \E fails \in BOOLEAN :
               messenger' = UnicastOutcome(messenger, "udp",
                                           UdpSend(messenger.udp_sock, fails))
       ELSE messenger' = [messenger EXCEPT !.pc = AfterUnicast(messenger)]
    /\ UNCHANGED <<LoopVars, process, tak>>

\* The multicast branch once socket i is done and socket j is next.
\* (NextSocket_NoBreak: without the break after sendto, the remaining
\* attempts run on the same socket.)
NextSocket_NoBreak(m, j) ==
    IF m.attempt < RetryCount
    THEN [m EXCEPT !.attempt = @ + 1]
    ELSE [m EXCEPT !.i = j, !.attempt = 1,
                   !.pc = IF j > Len(m.multicast_sockets) THEN "idle"
                          ELSE "mcast"]
NextSocket(m, j) ==
    [m EXCEPT !.i = j, !.attempt = 1,
              !.pc = IF j > Len(m.multicast_sockets) THEN "idle" ELSE "mcast"]

\* One attempt of the multicast branch of send_cot on socket i; fails:
\* sock.sendto raises.
MulticastAttempt ==
    /\ messenger.pc = "mcast"
    /\ \E fails \in BOOLEAN :
          LET m == messenger
              n == Len(m.multicast_sockets)
              ev == Event("mc", m.i, "sent", m.cot_xml)
              err == Event("mc", m.i, "raised", m.cot_xml)
              crit == Event("mc", m.i, "critical", m.cot_xml)
          IN  messenger' =
                IF ~fails
                THEN NextSocket([m EXCEPT !.log = Append(@, ev)], m.i + 1)
                ELSE CASE OnSendError(m.attempt) = "retry" ->
                            [m EXCEPT !.log = Append(@, err), !.attempt = @ + 1]
                       [] OnSendError(m.attempt) = "critical" ->
                            NextSocket([m EXCEPT !.log = @ \o <<err, crit>>],
                                       AfterExhausted(m.i, n))
                       [] OTHER ->
                            [m EXCEPT !.log = Append(@, err), !.pc = "raised"]
    /\ UNCHANGED <<LoopVars, process, tak>>

\* signal_handler closes the clients directly: tak_client.close(),
\* tak_udp_client.close().
CloseClients ==
    /\ messenger.pc = "idle"
    /\ messenger' =
          [messenger EXCEPT
              !.sock = IF messenger.tak_client THEN TakClose(@) ELSE @,
              !.udp_sock = IF messenger.tak_udp_client THEN "closed" ELSE @]
    /\ UNCHANGED <<LoopVars, process, tak>>

\* cot_messenger.close()
CloseMessenger ==
    /\ messenger.pc = "idle"
    /\ messenger' = MessengerClose(messenger)
    /\ UNCHANGED <<LoopVars, process, tak>>

\* A signal is delivered to the running process.
Signal ==
    /\ process.state = "running"
    /\ \E sig \in Signals :
          LET r == IF sig \in Handled
                   THEN signal_handler(process, messenger)
                   ELSE DefaultDisposition(process, messenger)
          IN  process' = r.process /\ messenger' = r.messenger
    /\ UNCHANGED <<LoopVars, tak>>

\* The TAK server becomes unreachable: an established connection breaks.
ServerDown ==
    /\ messenger.server_up
    /\ messenger' =
          [messenger EXCEPT !.server_up = FALSE, !.was_down = TRUE,
                            !.sock = IF @ = "conn" THEN "broken" ELSE @]
    /\ UNCHANGED <<LoopVars, process, tak>>

\* The TAK server is reachable again.  Nothing in the process reconnects:
\* zmq_to_cot calls tak_client.connect() once, before the loop, and never
\* starts run_connect_loop.
ServerUp ==
    /\ ~messenger.server_up
    /\ messenger' = [messenger EXCEPT !.server_up = TRUE]
    /\ UNCHANGED <<LoopVars, process, tak>>

NextMessenger ==
    \/ SendCot
    \/ UnicastAttempt
    \/ MulticastAttempt
    \/ CloseClients
    \/ CloseMessenger
    \/ ServerDown
    \/ ServerUp

SpecMessenger == InitMessenger /\ [][NextMessenger]_vars

\* The loop keeps ticking: a send_cot call is always made again and runs to
\* its end.
FairSpecMessenger ==
    /\ SpecMessenger
    /\ WF_vars(SendCot)
    /\ WF_vars(UnicastAttempt)
    /\ WF_vars(MulticastAttempt)

\* The messenger in use while signals arrive.
NextShutdown ==
    \/ SendCot
    \/ UnicastAttempt
    \/ MulticastAttempt
    \/ Signal

SpecShutdown == InitMessenger /\ [][NextShutdown]_vars

(***************************************************************************)
(* The steps of TAKClient.                                                 *)
(***************************************************************************)
\* What the steps of the client leave alone.
TakLeaves == <<LoopVars, messenger, process>>

\* connect() is called on a client without a socket: by zmq_to_cot before
\* the loop, or by run_connect_loop (`if not self.sock`, twice).
ConnectCall ==
    /\ tak.conn = "idle"
    /\ tak.sock = "none"
    /\ tak' = [tak EXCEPT !.conn = "while"]
    /\ UNCHANGED TakLeaves

\* `while self.max_retries == -1 or self.retry_count < self.max_retries`
ConnectWhile ==
    /\ tak.conn = "while"
    /\ tak' = [tak EXCEPT !.conn = IF MayAttempt(tak.max_retries,
                                                 tak.retry_count)
                                   THEN "create" ELSE "exhausted"]
    /\ UNCHANGED TakLeaves

\* After the except clause of connect: the wait is computed and slept,
\* retry_count incremented; an OverflowError of the power leaves connect.
AfterFailure(t) ==
    IF WaitTime(t.retry_count) = {}
    THEN [t EXCEPT !.conn = "raised", !.result = "raised"]
    ELSE [t EXCEPT !.conn = "while", !.retry_count = @ + 1,
                   !.prev_wait = t.wait, !.wait = WaitTime(t.retry_count)]

\* After `self.retry_count = 0; return`.
AfterSuccess(t) ==
    [t EXCEPT !.conn = "idle", !.retry_count = 0, !.result = "connected",
              !.wait = {}, !.prev_wait = {}]

\* self.sock = socket.create_connection(...): on success self.sock holds
\* the TCP socket, and without a TLS context connect returns; on failure
\* self.sock is as before.
CreateConnection ==
    /\ tak.conn = "create"
    /\ \E ok \in BOOLEAN :
          /\ ~ok => tak.retry_count <= tak.follow
          /\ tak' = IF ok
                    THEN IF tak.tls
                         THEN [tak EXCEPT !.sock = "tcp", !.conn = "wrap"]
                         ELSE AfterSuccess([tak EXCEPT !.sock = "tcp"])
                    ELSE AfterFailure(tak)
    /\ UNCHANGED TakLeaves

\* self.sock = self.tak_tls_context.wrap_socket(self.sock, ...): a failure
\* leaves the TCP socket in self.sock, open if wrap_socket raised before
\* taking its descriptor, detached and closed if the handshake failed.
WrapSocket ==
    /\ tak.conn = "wrap"
    /\ \E ok \in BOOLEAN, left \in {"tcp", "detached"} :
          /\ ~ok => tak.retry_count <= tak.follow
          /\ tak' = IF ok THEN AfterSuccess([tak EXCEPT !.sock = "tls"])
                    ELSE AfterFailure([tak EXCEPT !.sock = left])
    /\ UNCHANGED TakLeaves

\* "Max retries exceeded": self.sock = None
ConnectExhausted ==
    /\ tak.conn = "exhausted"
    /\ tak' = [tak EXCEPT !.sock = "none", !.conn = "idle",
                          !.result = "exhausted"]
    /\ UNCHANGED TakLeaves

\* send, up to `if not self.sock`: without a socket it logs and returns.
SendCheck ==
    /\ tak.loop = "idle"
    /\ ~tak.closed
    /\ tak.sock # "none"
    /\ tak' = [tak EXCEPT !.loop = "sendall"]
    /\ UNCHANGED TakLeaves

\* self.sock.sendall(cot_xml): self.sock is read again.  None has no
\* sendall, a detached socket raises, a connected one raises when the peer
\* is gone; `except Exception` logs and calls self.close().
SendAll ==
    /\ tak.loop = "sendall"
    /\ \E fails \in BOOLEAN :
          LET raises == fails \/ tak.sock \in {"none", "detached"}
          IN  tak' = [tak EXCEPT !.loop = "idle",
                                 !.written = @ \cup {tak.sock},
                                 !.sock = IF raises THEN "none" ELSE @]
    /\ UNCHANGED TakLeaves

\* A send that found the peer gone, as one step: the socket is closed.
SendFailed ==
    /\ tak.loop = "idle"
    /\ tak.conn = "idle"
    /\ tak.sock # "none"
    /\ tak' = [tak EXCEPT !.sock = "none"]
    /\ UNCHANGED TakLeaves

\* close() at shutdown, on the loop thread; it sends nothing afterwards.
TakCloseCall ==
    /\ tak.loop = "idle"
    /\ ~tak.closed
    /\ tak' = [tak EXCEPT !.sock = TakClose(@), !.closed = TRUE]
    /\ UNCHANGED TakLeaves

\* connect() as zmq_to_cot and run_connect_loop call it, through outages.
InitConnect ==
    /\ LoopInit
    /\ normalizer = NormalizerIdle
    /\ messenger = MessengerAtRest
    /\ process = ProcessRunning
    /\ tak \in {TakClient(tls, max_retries, MaxExp) :
                    tls \in BOOLEAN, max_retries \in -1..MaxRetries}

NextConnect ==
    \/ ConnectCall
    \/ ConnectWhile
    \/ CreateConnection
    \/ WrapSocket
    \/ ConnectExhausted
    \/ SendFailed

SpecConnect == InitConnect /\ [][NextConnect]_vars

\* The loop thread's send and close against the thread of
\* run_connect_loop.
InitThreads ==
    /\ LoopInit
    /\ normalizer = NormalizerIdle
    /\ messenger = MessengerAtRest
    /\ process = ProcessRunning
    /\ tak \in {TakClient(tls, max_retries, MaxFailures) :
                    tls \in BOOLEAN, max_retries \in -1..MaxRetries}

NextThreads ==
    \/ ConnectCall
    \/ ConnectWhile
    \/ CreateConnection
    \/ WrapSocket
    \/ ConnectExhausted
    \/ SendCheck
    \/ SendAll
    \/ TakCloseCall

SpecThreads == InitThreads /\ [][NextThreads]_vars

(***************************************************************************)
(* Properties.                                                             *)
(***************************************************************************)
Range(q) == {q[i] : i \in 1..Len(q)}
Live == DOMAIN drone_dict
Docs == Range(sent)
\* The position of identifier id in the deque.
Pos(id) == CHOOSE i \in 1..Len(drones) : drones[i] = id

\* C1. Cap invariant: neither the identifier deque nor drone_dict ever holds
\* more than max_drones entries.
C1_CapInvariant ==
    /\ Len(drones) <= MaxDrones
    /\ Cardinality(Live) <= MaxDrones

\* An upsert that found the registry full has evicted and refilled it.
C1_Witness == pc = "tick" /\ evicted # {} /\ Len(drones) = MaxDrones

\* C2. Eviction boundary: a step that inserts a new identifier into a full
\* live set removes exactly the least-recently-inserted identifier, appends
\* the new one last and keeps the order of the others.
C2_EvictionBoundary ==
    [][\A id \in Live' \ Live :
          Len(drones) = MaxDrones =>
              /\ drones' = Append(Tail(drones), id)
              /\ Live' = (Live \ {Head(drones)}) \cup {id}]_vars

\* The upsert evicted the head of a full deque of several identifiers.
C2_Witness ==
    /\ pc = "tick"
    /\ Cardinality(evicted) = 1
    /\ Len(drones) = MaxDrones
    /\ MaxDrones > 1

\* C3. Eviction is silent: no document handed to send_cot names an
\* identifier that has just been evicted, and every drone, pilot or home
\* document names an identifier of the live set, so an evicted identifier
\* gets no event until it is inserted again.
C3_EvictionSilent ==
    \A doc \in Docs :
        doc.kind # "status" => doc.drone \notin evicted /\ doc.drone \in Live

\* A tick ran right after an eviction and emitted for the remaining drones.
C3_Witness == pc = "done" /\ evicted # {} /\ sent # <<>>

\* C4. Retirement: every record that is older than inactivity_timeout when a
\* tick starts is gone from the deque and the dict when the tick returns.
C4_Retirement ==
    [][pc = "tick" =>
          \A id \in Live :
              now - drone_dict[id].last_update_time > InactivityTimeout =>
                  id \notin Live' /\ id \notin Range(drones')]_vars

\* A tick has just retired a record.
C4_Witness == pc = "done" /\ retired # {}

\* C5 as stated. Cadence by identifier: two successive drone events of one
\* identifier at t1 < t2 are at least rate_limit apart.
C5_CadenceById ==
    \A g \in emitGaps :
        ~g.same /\ g.prev < g.time => g.time - g.prev >= RateLimit

\* C5 amended. Cadence by record: two successive drone events of one record
\* (one uninterrupted stay of an identifier in the live set) are at least
\* rate_limit apart.
C5_CadenceByRecord ==
    \A g \in emitGaps : g.same => g.time - g.prev >= RateLimit

\* A record was emitted a second time.
C5_Witness == \E g \in emitGaps : g.same /\ g.time - g.prev >= RateLimit

\* C6 as stated. Stale strictly after the event time and at most
\* inactivity_timeout later, for every drone, pilot and home event.
C6_StaleAfterTime ==
    \A doc \in Docs :
        doc.kind # "status" =>
            doc.stale > doc.time /\ doc.stale - doc.time <= InactivityTimeout

\* C7 as stated. No drone event for a record at lat = lon = 0.0.
C7_NoDroneEventAtZero ==
    \A doc \in Docs : doc.kind = "drone" => ~(doc.lat = 0 /\ doc.lon = 0)

C9_PrefixInvariant ==
    /\ \A id \in Live \cup Range(drones) : StartsWith(id, DronePrefix)
    /\ \A doc \in Docs : doc.kind = "drone" => StartsWith(doc.uid, DronePrefix)

\* A drone reported without the prefix was stored and emitted with it.
C9_Witness ==
    /\ DronePrefix \o IdB \in Live
    /\ \E doc \in Docs : doc.kind = "drone" /\ doc.uid = DronePrefix \o IdB

\* C10. Emission ordering within a tick: a pilot event directly follows its
\* drone event, a home event directly follows its drone's drone or pilot
\* event, each drone has one drone event, and drone events follow the
\* insertion order of the live set.
C10_EmissionOrder ==
    /\ \A i \in 1..Len(sent) :
          /\ sent[i].kind = "pilot" =>
                /\ i > 1
                /\ sent[i - 1].kind = "drone"
                /\ sent[i - 1].drone = sent[i].drone
          /\ sent[i].kind = "home" =>
                /\ i > 1
                /\ sent[i - 1].kind \in {"drone", "pilot"}
                /\ sent[i - 1].drone = sent[i].drone
    /\ \A i, j \in 1..Len(sent) :
          i < j /\ sent[i].kind = "drone" /\ sent[j].kind = "drone"
              /\ sent[i].drone \in Range(drones)
              /\ sent[j].drone \in Range(drones) =>
                  Pos(sent[i].drone) < Pos(sent[j].drone)

\* One tick emitted two drones, one of them with its pilot.
C10_Witness ==
    /\ Cardinality({i \in 1..Len(sent) : sent[i].kind = "drone"}) >= 2
    /\ \E doc \in Docs : doc.kind = "pilot"

\* C19. Drop without identifier: the telemetry branch on a frame without a
\* Basic ID of an accepted id_type leaves the deque and every record as
\* they were.
C19_DropWithoutId ==
    [][frame' = "unidentified" => UNCHANGED <<drones, drone_dict>>]_vars

\* A frame without identifier was consumed while drones were tracked.
C19_Witness == frame = "unidentified" /\ drones # <<>>

\* C20 as stated. The loop survives errors: no error raised while a frame is
\* handled ends the loop.
C20_LoopSurvives == pc # "stopped"

\* The positions of the objects of frame m whose Basic ID has an id_type in
\* types, and the identifier such an object carries.
ObjectsOfType(m, types) ==
    {k \in 1..Len(m.items) : \E b \in m.items[k].basic : b.id_type \in types}
First(S) == CHOOSE k \in S : \A j \in S : k <= j
IdAt(m, k) == {Get(b.id, Str(Unknown)) : b \in m.items[k].basic}

\* C17 as stated. Identifier selection priority: the identifier is that of
\* the first serial-number Basic ID wherever CAA registrations appear, and
\* that of the first CAA registration only when there is no serial number.
C17_SerialPriority ==
    \A m \in normalizer.msg, info \in normalizer.info :
        LET serial == ObjectsOfType(m, {SerialTag})
            caa == ObjectsOfType(m, {CAATag})
        IN  info.id = IF serial # {} THEN IdAt(m, First(serial))
                      ELSE IF caa # {} THEN IdAt(m, First(caa))
                      ELSE {}

\* C18. The identifier is set once: it is that of the first Basic ID of an
\* accepted id_type, whatever Basic IDs follow.
C18_SetOnce ==
    \A m \in normalizer.msg, info \in normalizer.info :
        LET accepted == ObjectsOfType(m, {SerialTag, CAATag})
        IN  info.id = IF accepted # {} THEN IdAt(m, First(accepted)) ELSE {}

\* A frame with accepted Basic IDs of different identifiers was normalized.
C18_Witness ==
    \E m \in normalizer.msg :
        \E j, k \in ObjectsOfType(m, {SerialTag, CAATag}) :
            j < k /\ IdAt(m, j) # IdAt(m, k)

(***************************************************************************)
(* Properties of the messenger.                                            *)
(***************************************************************************)
\* The entries of the call's record for one sink.
LogOf(sink, i) ==
    SelectSeq(messenger.log, LAMBDA e : e.sink = sink /\ e.i = i)
Kinds(q) == {q[k].kind : k \in 1..Len(q)}
\* The attempts made on a sink: the calls of the client's send / of sendto.
Attempts(q) == SelectSeq(q, LAMBDA e : e.kind \notin {"raised", "critical"})
\* A send_cot call has returned.
Returned == messenger.pc = "idle" /\ messenger.log # <<>>

\* C11. send_cot never raises to its caller, whatever sinks are configured
\* and however they fail.
C11_SendCotNeverRaises == messenger.pc # "raised"

\* A call returned although the TCP send failed and a multicast socket
\* failed retry_count times.
C11_Witness ==
    /\ Returned
    /\ LogOf("tcp", 0) # <<>> /\ "sent" \notin Kinds(LogOf("tcp", 0))
    /\ \E k \in 1..Len(messenger.log) : messenger.log[k].kind = "critical"

\* C12 as stated. Unicast retry budget: a failed unicast send is repeated
\* until one attempt succeeds or retry_count attempts were made, and the
\* critical outcome is reported exactly when all of them failed.
C12_UnicastRetryBudget ==
    messenger.pc # "unicast" =>
        \A sink \in {"tcp", "udp"} :
            LET q == LogOf(sink, 0)
            IN  q # <<>> =>
                    IF "sent" \in Kinds(q)
                    THEN "critical" \notin Kinds(q)
                    ELSE Len(Attempts(q)) = RetryCount /\ "critical" \in Kinds(q)

\* C13. Path independence: when a call has returned, every multicast socket
\* has had the document sent on it or all its retry_count attempts fail,
\* whatever happened on the unicast sink and on the other sockets.
C13_PathIndependence ==
    Returned /\ MulticastOn(messenger) =>
        \A i \in 1..Len(messenger.multicast_sockets) :
            LET q == LogOf("mc", i)
            IN  \/ "sent" \in Kinds(q)
                \/ Len(Attempts(q)) + Len(SelectSeq(q, LAMBDA e : e.kind = "raised"))
                       = RetryCount /\ "critical" \in Kinds(q)

\* The unicast send failed, the first multicast socket exhausted its
\* retries, and the second one still got the document.
C13_Witness ==
    /\ Returned
    /\ Len(messenger.multicast_sockets) >= 2
    /\ LogOf("tcp", 0) # <<>> /\ "sent" \notin Kinds(LogOf("tcp", 0))
    /\ "critical" \in Kinds(LogOf("mc", 1))
    /\ "sent" \in Kinds(LogOf("mc", 2))

\* C14. Close is complete and idempotent: once close() has run, the list of
\* multicast sockets is empty, the TCP socket unset and the UDP socket
\* closed, and close() run again leaves the messenger as it is.
C14_CloseIdempotent ==
    messenger.closed =>
        /\ messenger.multicast_sockets = <<>>
        /\ messenger.tak_client => messenger.sock = "none"
        /\ messenger.tak_udp_client => messenger.udp_sock = "closed"
        /\ MessengerClose(messenger) = messenger

\* A messenger that had sent on TCP and on multicast was closed.
C14_Witness ==
    /\ messenger.closed
    /\ "sent" \in Kinds(LogOf("tcp", 0))
    /\ "sent" \in Kinds(LogOf("mc", 1))

\* C15 as stated. A TCP send without a live socket gives its caller an error:
\* the messenger sees the attempt fail.
C15_DisconnectedSendErrors ==
    \A k \in 1..Len(messenger.log) :
        messenger.log[k].kind = "nosock" =>
            k < Len(messenger.log) /\ messenger.log[k + 1].kind = "raised"

\* C16 as stated. TCP recovery: if, after an outage, the server is reachable
\* again for good and the messenger is not closed, sends on the TCP sink
\* succeed again.
C16_TcpRecovery ==
    (<>[](messenger.tak_client /\ messenger.was_down /\ messenger.server_up)
       /\ []~messenger.closed)
        => []<>(messenger.pc # "unicast" /\ "sent" \in Kinds(LogOf("tcp", 0)))

(***************************************************************************)
(* Properties of the loop with its history.                                *)
(***************************************************************************)
\* C21 as stated. Movement produces unique UIDs: a drone event for a record
\* that the last min_consecutive_for_unique ticks in a row found away from
\* the position of its previous drone event has a fresh uid of the form
\* <drone-id>-<timestamp>, and a drone event for a record found where its
\* previous event left it has the drone id as uid.
C21_MovementUniqueUid ==
    pc = "done" =>
        \A doc \in DroneEvents(sent) :
            doc.drone \in DOMAIN consecutive_moves =>
                LET m == consecutive_moves[doc.drone]
                IN  /\ m.count >= MinConsecutive =>
                          /\ StartsWith(doc.uid, doc.drone \o <<"-">>)
                          /\ doc.uid # doc.drone
                    /\ m.count = 0 => doc.uid = doc.drone

\* C27 as stated. Merge keeps absent fields: when the telemetry branch
\* updates a record of the live set, the position stays as it was unless the
\* frame carried a Location/Vector Message, and the operator position stays
\* as it was unless the frame carried a System Message.
C27_MergeKeepsAbsent ==
    [][pc = "poll" =>
          \A id \in drone_info'.id \cap Live :
              /\ "lat" \notin drone_info'.keys =>
                    /\ drone_dict'[id].lat = drone_dict[id].lat
                    /\ drone_dict'[id].lon = drone_dict[id].lon
              /\ "pilot_lat" \notin drone_info'.keys =>
                    /\ drone_dict'[id].pilot_lat = drone_dict[id].pilot_lat
                    /\ drone_dict'[id].pilot_lon = drone_dict[id].pilot_lon]_vars

(***************************************************************************)
(* Properties of the multicast branch and of shutdown.                     *)
(***************************************************************************)
\* The entries of the call's record for the multicast sockets.
McLog == SelectSeq(messenger.log, LAMBDA e : e.sink = "mc")

\* C22. Multicast fan-out: when a send_cot call with multicast enabled and
\* N sockets has returned and none of its sendto calls failed, exactly N
\* datagrams went out, the k-th on socket k, each carrying the document of
\* the call; no socket got it twice.
C22_MulticastFanOut ==
    (Returned /\ MulticastOn(messenger) /\ "raised" \notin Kinds(McLog)) =>
        /\ Len(McLog) = Len(messenger.multicast_sockets)
        /\ \A k \in 1..Len(McLog) :
              McLog[k] = Event("mc", k, "sent", messenger.cot_xml)

\* A call on the most sockets has returned with every sendto successful.
C22_Witness ==
    /\ Returned /\ MulticastOn(messenger)
    /\ Len(messenger.multicast_sockets) = MaxSockets
    /\ Len(McLog) = MaxSockets
    /\ Kinds(McLog) = {"sent"}

\* C23 as stated. Graceful shutdown: once SIGINT or SIGTERM has stopped the
\* process, the subscriptions are closed, the messenger is closed, the exit
\* code is 0, and no send is in progress.
C23_GracefulShutdown ==
    process.state # "running" =>
        /\ process.subscriptions = "closed"
        /\ messenger.closed
        /\ process.exit_code = {0}
        /\ messenger.pc = "idle"

(***************************************************************************)
(* Properties of the scheduler and of the registry under updates.          *)
(***************************************************************************)
\* C24. First-tick emission: a record that has had no drone event since
\* its insertion (a new identifier, or one inserted again after eviction or
\* retirement) has last_sent_time 0 when the tick starts, and when the tick
\* is over every live record has had its drone event.
C24_FirstTickEmission ==
    /\ pc = "tick" =>
          \A id \in Live \ DOMAIN emitByRec :
              /\ drone_dict[id].last_sent_time = 0
              /\ drone_dict[id].last_update_time = now
    /\ pc = "done" =>
          \A id \in Live :
              /\ id \in DOMAIN emitByRec
              /\ drone_dict[id].last_sent_time # 0

\* An identifier inserted again less than RateLimit after its last drone
\* event got a drone event in the first tick of its new record.
C24_Witness ==
    /\ pc = "done"
    /\ \E g \in emitGaps :
          /\ ~g.same
          /\ g.time - g.prev < RateLimit
          /\ g.id \in Live
          /\ drone_dict[g.id].last_sent_time = now

C26_TickPerPoll == [][pc = "poll" => pc' # "poll"]_vars

\* C28. Update refreshes the inactivity timer: a frame for an identifier
\* already in the live set sets that record's last_update_time to the time
\* of the iteration and touches no other record, and a tick keeps every
\* record whose last update is at most InactivityTimeout old.
C28_UpdateRefreshesTimer ==
    [][/\ (pc = "poll" /\ frame' = "identified" /\ pc' = "tick"
            /\ Live' = Live) =>
              \E id \in Live :
                  /\ drone_dict'[id].last_update_time = now'
                  /\ \A o \in Live \ {id} : drone_dict'[o] = drone_dict[o]
       /\ pc = "tick" =>
              \A id \in Live :
                  now - drone_dict[id].last_update_time <= InactivityTimeout
                      => id \in Live'
      ]_vars

\* A tick retired one record and kept another that was updated after its
\* last drone event.
C28_Witness ==
    /\ pc = "done"
    /\ retired # {}
    /\ \E id \in Live :
          /\ drone_dict[id].last_sent_time > 0
          /\ drone_dict[id].last_update_time > drone_dict[id].last_sent_time

\* C29. Update does not reorder: a telemetry branch that inserts no
\* identifier leaves the deque as it was, and one that evicts removes the
\* leftmost identifier, however recently its record was updated.
C29_UpdateKeepsOrder ==
    [][pc = "poll" =>
          /\ Live' \ Live = {} => (drones' = drones /\ Live' = Live)
          /\ Live \ Live' # {} =>
                /\ Live \ Live' = {Head(drones)}
                /\ Tail(drones) = SubSeq(drones', 1, Len(drones') - 1)
      ]_vars

\* The earliest-inserted of two records is the more recently updated one.
C29_Witness ==
    /\ pc = "tick"
    /\ Len(drones) = 2
    /\ drone_dict[drones[1]].last_update_time
          > drone_dict[drones[2]].last_update_time

\* C30. Pilot and home events: in a tick, a drone event comes with a pilot
\* event of uid pilot-<id without drone-> exactly when the record's pilot
\* coordinates are not both 0, with a home event of uid home-<id without
\* drone-> exactly when its home coordinates are not both 0, and no pilot
\* or home event comes without the drone event of its record.
C30_PilotAndHome ==
    pc = "done" =>
        /\ \A doc \in DroneEvents(sent) :
              LET d == drone_dict[doc.drone]
                  base == DropPrefix(doc.drone, DronePrefix)
              IN  /\ (\E p \in Docs : p.kind = "pilot"
                                        /\ p.uid = PilotPrefix \o base)
                        <=> (d.pilot_lat # 0 \/ d.pilot_lon # 0)
                  /\ (\E h \in Docs : h.kind = "home"
                                        /\ h.uid = HomePrefix \o base)
                        <=> (d.home_lat # 0 \/ d.home_lon # 0)
        /\ \A p \in Docs :
              p.kind \in {"pilot", "home"} =>
                  \E doc \in DroneEvents(sent) : doc.drone = p.drone

\* A tick emitted a pilot event for a record with one pilot coordinate 0,
\* and a drone event without a pilot event for another.
C30_Witness ==
    /\ pc = "done"
    /\ \E p \in Docs : p.kind = "pilot" /\ p.lat = 0 /\ p.lon # 0
    /\ \E doc \in DroneEvents(sent) :
          \A p \in Docs : p.kind = "pilot" => p.drone # doc.drone

(***************************************************************************)
(* Properties of the sinks of one send_cot call.                           *)
(***************************************************************************)
\* The entries of the call's record for the unicast sinks.
UnicastLog == SelectSeq(messenger.log, LAMBDA e : e.sink \in {"tcp", "udp"})

\* C31. Unicast sink selection: the record of a send_cot call names the
\* TCP/TLS sink only when that client is configured and the UDP sink only
\* when the UDP client is configured and the TCP/TLS client is not; it
\* never names both, whatever the state of the TCP/TLS socket.
C31_UnicastSinkSelection ==
    /\ \A e \in Range(UnicastLog) :
          /\ e.sink = "tcp" => messenger.tak_client
          /\ e.sink = "udp" =>
                ~messenger.tak_client /\ messenger.tak_udp_client
    /\ Cardinality({e.sink : e \in Range(UnicastLog)}) <= 1
    /\ (Returned /\ UnicastSink(messenger) # "none") => UnicastLog # <<>>

\* Both clients are configured, the TCP/TLS client has no socket, and the
\* call returned having used the TCP/TLS sink alone.
C31_Witness ==
    /\ Returned
    /\ messenger.tak_client /\ messenger.tak_udp_client
    /\ messenger.udp_sock = "open"
    /\ Kinds(LogOf("tcp", 0)) \cap {"nosock", "swallowed"} # {}
    /\ LogOf("udp", 0) = <<>>

C35_PrefixIdempotent ==
    \A info \in normalizer.info : \A v \in info.id :
        v.isStr =>
            /\ drone_info.id = {IF StartsWith(v.s, DronePrefix) THEN v.s
                                ELSE DronePrefix \o v.s}
            /\ \A id \in drone_info.id : EnsurePrefix(id) = id
            /\ v.s \in {IdA, DronePrefix \o IdA} =>
                  drone_info.id = {DronePrefix \o IdA}

\* A frame whose identifier came with the prefix was stored under it as
\* sent.
C35_Witness ==
    /\ \E info \in normalizer.info : info.id = {Str(DronePrefix \o IdA)}
    /\ drone_info.id = {DronePrefix \o IdA}

(***************************************************************************)
(* Properties of retirement and of the registry's two collections.         *)
(***************************************************************************)
\* C36. Silent retirement: a record more than InactivityTimeout old when a
\* tick starts gets no drone, pilot or home event in that tick and is gone
\* from both collections when it returns; a record exactly
\* InactivityTimeout old stays, and gets its events if it is due.
C36_SilentRetirement ==
    [][pc = "tick" =>
          \A id \in Live :
              LET age == now - drone_dict[id].last_update_time
                  docs == {d \in Range(sent') : d.drone = id}
              IN  /\ age > InactivityTimeout =>
                        /\ docs = {}
                        /\ id \notin Live' /\ id \notin Range(drones')
                        /\ id \in retired'
                  /\ age = InactivityTimeout =>
                        /\ id \in Live' /\ id \in Range(drones')
                        /\ id \notin retired'
                        /\ now - drone_dict[id].last_sent_time >= RateLimit
                              => \E d \in docs : d.kind = "drone"
      ]_vars

\* A tick retired one record and kept another that was exactly
\* InactivityTimeout old.
C36_Witness ==
    /\ pc = "done"
    /\ retired # {}
    /\ \E id \in Live : now - drone_dict[id].last_update_time = InactivityTimeout

\* C37. Registry consistency: the deque holds no identifier twice and its
\* identifiers are the keys of drone_dict, at every point of the loop.
C37_RegistryConsistency ==
    /\ \A i, j \in 1..Len(drones) : drones[i] = drones[j] => i = j
    /\ Range(drones) = DOMAIN drone_dict

\* The registry after a tick that retired one record and kept another
\* that had been emitted and updated since.
C37_Witness ==
    /\ pc = "done"
    /\ retired # {}
    /\ \E id \in Range(drones) :
          drone_dict[id].last_update_time >= drone_dict[id].last_sent_time

(***************************************************************************)
(* Properties of TAKClient.                                                *)
(***************************************************************************)
\* C33 as stated. Reconnect backoff: connect always gets a wait from its
\* except clause; the first wait of a run of failures is
\* backoff_factor^0 = 1, each later one is the previous one times
\* backoff_factor capped at max_backoff, so waits never decrease and never
\* exceed max_backoff; a successful connection leaves retry_count at 0.
C33_ReconnectBackoff ==
    /\ tak.conn # "raised"
    /\ \A w \in tak.wait :
          /\ w <= MaxBackoff
          /\ tak.prev_wait = {} => w = 1
          /\ \A pw \in tak.prev_wait :
                /\ w >= pw
                /\ w = IF pw * BackoffFactor < MaxBackoff
                       THEN pw * BackoffFactor ELSE MaxBackoff
    /\ (tak.result = "connected" /\ tak.conn = "idle") => tak.retry_count = 0

\* C34 as stated. Send is atomic with respect to reconnect: sendall is only
\* ever called on a fully established socket (the TLS socket when a TLS
\* context is configured, the TCP socket otherwise), never on None or on a
\* closed socket, and self.sock never holds a closed socket.
C34_SendAtomic ==
    /\ tak.written \subseteq {IF tak.tls THEN "tls" ELSE "tcp"}
    /\ tak.sock # "detached"

\* C38 as stated. No plaintext send under TLS: with a TLS context
\* configured, sendall is never called on the TCP socket that wrap_socket
\* has not (or not successfully) wrapped.
C38_NoPlaintextUnderTls == tak.tls => "tcp" \notin tak.written

\* C39 as stated. Close is final for the TCP sink: once close() has
\* returned, self.sock is None from then on.
C39_CloseIsFinal == tak.closed => tak.sock = "none"

\* C40. Bounded connect: with max_retries = N >= 0 no more than N attempts
\* fail before connect gives up, which leaves self.sock None; from then on
\* retry_count stays N, no connect() call makes an attempt and self.sock
\* stays None; with max_retries = -1 connect never gives up.
C40_BoundedConnect ==
    /\ tak.max_retries >= 0 => tak.retry_count <= tak.max_retries
    /\ tak.conn = "exhausted" => tak.retry_count = tak.max_retries
    /\ tak.result = "exhausted" =>
          /\ tak.sock = "none"
          /\ tak.retry_count = tak.max_retries
          /\ tak.conn \in {"idle", "while", "exhausted"}
    /\ tak.max_retries = -1 =>
          tak.result # "exhausted" /\ tak.conn # "exhausted"

\* A connect() call after an exhaustion with the largest max_retries has
\* fallen through its loop again.
C40_Witness ==
    /\ tak.max_retries = MaxRetries
    /\ tak.result = "exhausted"
    /\ tak.conn = "exhausted"
    /\ tak.wait # {}

====
